---- MODULE Spec2Model ----
(***************************************************************************)
(* A model of webscraper.py: the recursive DOM diff (compare_html) and the *)
(* fetch / cache / diff pipeline (diff_url, do_diff, main).                *)
(*                                                                         *)
(* Two specifications:                                                     *)
(*   Spec      the pipeline: main's loop, do_diff, one task per URL.       *)
(*   DiffSpec  compare_html applied to every pair of bounded trees.        *)
(***************************************************************************)
EXTENDS Integers, Sequences, FiniteSets, TLC

VARIABLES
    disk,         \* cache.json: absent, malformed, or a JSON object
    cache,        \* do_diff's cache dict, shared by the tasks of a cycle
    urls,         \* config['urls'] of the running cycle
    tasks,        \* one diff_url task per element of urls
    url_diffs,    \* what asyncio.gather returned
    stdout,       \* the CHANGE blocks printed in the running cycle
    pc,           \* where main / do_diff stands
    now,          \* the clock datetime.now() reads
    cycle,        \* completed iterations of main's loop
    error,        \* the exception that left do_diff, "none" if none did
    start_disk,   \* history: cache.json as it was when the cycle started
    persists,     \* history: writes of cache.json in the running cycle
    printed,      \* history: the print loop of the running cycle has run
    last_fetched, \* history: URL -> body fetched in the last completed cycle
    interval,     \* config['interval_in_minutes'] of the last sleep, 0 before it
    waited,       \* the seconds main handed to asyncio.sleep, 0 before it
    old_tree,     \* DiffSpec: the tree handed to compare_html as old_html
    new_tree,     \* DiffSpec: the tree handed to compare_html as new_html
    diff_result,  \* DiffSpec: what compare_html returned
    diff_pc       \* DiffSpec: "input" before the call, "compared" after it

pipeVars == <<disk, cache, urls, tasks, url_diffs, stdout, pc, now, cycle, error,
              start_disk, persists, printed, last_fetched, interval, waited>>

diffVars == <<old_tree, new_tree, diff_result, diff_pc>>

vars == <<disk, cache, urls, tasks, url_diffs, stdout, pc, now, cycle, error,
          start_disk, persists, printed, last_fetched, interval, waited,
          old_tree, new_tree, diff_result, diff_pc>>

(***************************************************************************)
(* Bounds                                                                  *)
(***************************************************************************)
MaxNodes == 3    \* DiffSpec: the largest tree has this many elements
MaxUrls == 2     \* Spec: config['urls'] has at most this many elements
MaxCycles == 2   \* Spec: main's loop runs at most this many cycles

(***************************************************************************)
(* Tree model: what BeautifulSoup hands to compare_html.  An element is a  *)
(* record of its tag name, its attributes, its own text and its element    *)
(* children in document order.                                             *)
(***************************************************************************)
NoAttrs == {}

Tag(name, attrs, text, kids) ==
    [name |-> name, attrs |-> attrs, text |-> text, kids |-> kids]

\* The name / attributes / text an element of a bounded tree may carry.
Labels ==
    { [name |-> "div", attrs |-> NoAttrs,              text |-> ""],
      [name |-> "div", attrs |-> {<<"class", "x">>},   text |-> ""],
      [name |-> "p",   attrs |-> NoAttrs,              text |-> "A"],
      [name |-> "p",   attrs |-> NoAttrs,              text |-> "B"] }

RECURSIVE TreesOfSize(_), ForestsOfSize(_)
\* All sequences of trees with n elements in total.
ForestsOfSize(n) ==
    IF n = 0 THEN { <<>> }
    ELSE UNION { { <<t>> \o f : t \in TreesOfSize(k), f \in ForestsOfSize(n - k) }
                 : k \in 1..n }
\* All trees with exactly n elements.
TreesOfSize(n) ==
    { Tag(l.name, l.attrs, l.text, f) : l \in Labels, f \in ForestsOfSize(n - 1) }

Trees == UNION { TreesOfSize(n) : n \in 1..MaxNodes }

(***************************************************************************)
(* A reference to an element: the element and where it sits in its tree    *)
(* (the path of child indexes from the root).  Python hands out the Tag    *)
(* objects themselves, which know their parent.                            *)
(***************************************************************************)
Ref(path, node) == [path |-> path, node |-> node]

RootRef(tree) == Ref(<<>>, tree)

\* findChildren(recursive=False): the direct element children, in order.
findChildren(r) ==
    [i \in 1..Len(r.node.kids) |-> Ref(Append(r.path, i), r.node.kids[i])]

\* "is" instead of "==": two separately parsed trees are never one object.
SameObject(a, b) == FALSE

\* Comparing the elements themselves and not what they contain.
ShallowEq(a, b) == a.name = b.name /\ a.attrs = b.attrs /\ a.text = b.text

\* old_html == new_html: bs4 compares name, attributes and contents, deeply.
StructEq(a, b) == a = b

DifferentiatingElement(o, n) == [old |-> o, new |-> n]

Min(a, b) == IF a <= b THEN a ELSE b
Max(a, b) == IF a >= b THEN a ELSE b

\* zip_longest with an empty soup as fill value instead of zip.
ZipLongest(oc, nc) ==
    LET Fill == Ref(<<>>, Tag("[document]", NoAttrs, "", <<>>))
    IN [i \in 1..Max(Len(oc), Len(nc)) |->
           <<IF i <= Len(oc) THEN oc[i] ELSE Fill,
             IF i <= Len(nc) THEN nc[i] ELSE Fill>>]

\* zip(old_children, new_children): pairs up to the shorter sequence.
Zip(oc, nc) == [i \in 1..Min(Len(oc), Len(nc)) |-> <<oc[i], nc[i]>>]

\* Always blaming the current element, whatever the children said.
AttributeAlwaysSelf(diff, o, n) == <<DifferentiatingElement(o, n)>>

\* Returning the children's differences even when there are none.
AttributeNeverSelf(diff, o, n) == diff

\* Reporting the current element in front of its children's differences.
AttributeAlsoSelf(diff, o, n) == <<DifferentiatingElement(o, n)>> \o diff

\* "if not diff: return [DifferentiatingElement(old_html, new_html)] else diff"
Attribute(diff, o, n) ==
    IF diff = <<>> THEN <<DifferentiatingElement(o, n)>> ELSE diff

RECURSIVE compare_html(_, _), compare_children(_, _)
\* The for loop: diff.extend(compare_html(old_child, new_child)) per pair.
compare_children(pairs, i) ==
    IF i > Len(pairs) THEN <<>>
    ELSE compare_html(pairs[i][1], pairs[i][2]) \o compare_children(pairs, i + 1)

compare_html(old_html, new_html) ==
    IF StructEq(old_html.node, new_html.node)
    THEN <<>>
    ELSE Attribute(
             compare_children(Zip(findChildren(old_html), findChildren(new_html)), 1),
             old_html, new_html)

(***************************************************************************)
(* The pipeline's data: pages, timestamps, cache entries, cache.json.      *)
(***************************************************************************)
URLS == { "u1", "u2" }

\* The lists config['urls'] may hold: any order, repetitions included.
UrlLists == UNION { [1..n -> URLS] : n \in 0..MaxUrls }

\* The bodies a server may answer with.
Pages ==
    { "",
      "<html><body>hi</body></html>",
      "<div><p>A</p><p>B</p></div>" }

Soup(kids) == Tag("[document]", NoAttrs, "", kids)

\* BeautifulSoup(html, 'html.parser'): the document object over the parsed
\* top-level elements.
BeautifulSoup(html) ==
    CASE html = "" -> Soup(<<>>)
      [] html = "<html><body>hi</body></html>" ->
            Soup(<<Tag("html", NoAttrs, "", <<Tag("body", NoAttrs, "hi", <<>>)>>)>>)
      [] html = "<div><p>A</p><p>B</p></div>" ->
            Soup(<<Tag("div", NoAttrs, "", <<Tag("p", NoAttrs, "A", <<>>),
                                             Tag("p", NoAttrs, "B", <<>>)>>)>>)

\* datetime.now().isoformat(): a string.
isoformat(t) == [type |-> "str", value |-> t]

\* datetime.min: a datetime object, not a string.
datetime_min == [type |-> "datetime", value |-> 0]

EmptyMap == [u \in {} |-> u]

\* The value under a key of a mapping, or the default: dict.get.
get(d, key, default) == IF key \in DOMAIN d THEN d[key] ELSE default

\* A JSON object as json.loads returns it: a dict, which has .get.
Dict(fields) == [kind |-> "dict", fields |-> fields]

\* The dataclass CacheEntry: attributes html and timestamp, and no .get.
CacheEntry(html, timestamp) ==
    [kind |-> "CacheEntry", fields |-> [html |-> html, timestamp |-> timestamp]]

\* Whether old_cache_entry.get(...) can be called on the entry.
HasGet(entry) == entry.kind = "dict"

UrlDiff(url, differentiating_elements, old_timestamp, new_timestamp) ==
    [url |-> url,
     differentiating_elements |-> differentiating_elements,
     old_timestamp |-> old_timestamp,
     new_timestamp |-> new_timestamp]

\* The result slot of a task that has not returned.
NoUrlDiff == UrlDiff("", <<>>, datetime_min, datetime_min)

AbsentFile == [state |-> "absent", data |-> EmptyMap]
MalformedFile == [state |-> "malformed", data |-> EmptyMap]
JsonFile(data) == [state |-> "json", data |-> data]

\* EnhancedJSONEncoder.default on a value json cannot encode itself: a
\* datetime becomes its isoformat string; a string is written as it is.
encode_timestamp(t) == IF t.type = "datetime" THEN isoformat(t.value) ELSE t

\* json.dumps(cache, cls=EnhancedJSONEncoder): dataclasses through asdict,
\* dicts as they are; either way a JSON object of the entry's fields.
json_dumps(c) ==
    JsonFile([u \in DOMAIN c |->
                 [html |-> c[u].fields.html,
                  timestamp |-> encode_timestamp(c[u].fields.timestamp)]])

\* json.loads(cache_path.read_text()): every entry comes back as a dict.
json_loads(file) == [u \in DOMAIN file.data |-> Dict(file.data[u])]

\* The cache files a cycle may find: none, a malformed one, or the entries
\* an earlier run wrote for some of the URLs.
InitialDisks ==
    { AbsentFile, MalformedFile } \cup
    UNION { { JsonFile(m) :
                m \in [D -> [html : Pages, timestamp : { isoformat(0) }]] }
            : D \in SUBSET URLS }

(***************************************************************************)
(* diff_url: one task per URL.  The task suspends in client.get only; what *)
(* follows the await runs in one step of the event loop.                   *)
(***************************************************************************)
\* A task: where it stands, what it raised, whether its fetch succeeded and
\* with which body, the cache entry it read, and the UrlDiff it returned.
Task(tpc, exc, got, text, entry, result) ==
    [pc |-> tpc, exc |-> exc, got |-> got, text |-> text, entry |-> entry,
     result |-> result]

\* cache.get(url, {})
old_cache_entry(c, url) == get(c, url, Dict(EmptyMap))

NewTask == Task("fetching", "none", FALSE, "", Dict(EmptyMap), NoUrlDiff)

\* A string timestamp as the default instead of datetime.min.
old_timestamp_epoch(entry) == get(entry.fields, "timestamp", isoformat(0))

\* old_cache_entry.get('timestamp', datetime.min)
old_timestamp(entry) == get(entry.fields, "timestamp", datetime_min)

\* Storing the datetime object itself instead of its isoformat string.
datetime_object(t) == [type |-> "datetime", value |-> t]

\* timestamp=datetime.now().isoformat(), the timestamp of the new entry.
cache_timestamp(t) == isoformat(t)

\* Rebuilding the mapping from the one new entry.
put_only(c, url, entry) == [u \in {url} |-> entry]

\* Forgetting to save the new content.
put_nothing(c, url, entry) == c

\* cache[url] = CacheEntry(...): whatever the comparison found.
put(c, url, entry) ==
    [u \in DOMAIN c \cup {url} |-> IF u = url THEN entry ELSE c[u]]

\* An await between reading the old entry and storing the new one: the task
\* gives the event loop away with the old entry in hand.
after_read_suspended == "suspended"

\* Where a task stands once it has read its old entry: still running, since
\* lines 96-114 hold no await.
after_read == "diffing"

\* A task is running between two suspension points: the event loop runs
\* nothing else until it returns, raises or awaits.
LoopBusy == \E i \in DOMAIN tasks : tasks[i].pc = "diffing"

\* The first exception a task raises is the one gather hands to do_diff.
Raised(exc) == IF error = "none" THEN exc ELSE error

\* client.get raised (network error) or raise_for_status did (HTTP status).
FetchFail(i) ==
    /\ pc = "gather"
    /\ ~LoopBusy
    /\ i \in DOMAIN tasks
    /\ tasks[i].pc = "fetching"
    /\ tasks' = [tasks EXCEPT ![i] =
                    Task("raised", "HTTPError", FALSE, "", Dict(EmptyMap), NoUrlDiff)]
    /\ error' = Raised("HTTPError")
    /\ UNCHANGED <<disk, cache, urls, url_diffs, stdout, pc, now, cycle,
                   start_disk, persists, printed, last_fetched, interval, waited>>
    /\ UNCHANGED diffVars

\* client.get returned a success response with body text and the task
\* resumes: lines 92-97, up to reading the old entry's html.
FetchOk(i, text) ==
    /\ pc = "gather"
    /\ ~LoopBusy
    /\ i \in DOMAIN tasks
    /\ tasks[i].pc = "fetching"
    /\ LET entry == old_cache_entry(cache, urls[i])
       IN IF ~HasGet(entry)
          THEN \* old_cache_entry.get: a CacheEntry has no attribute 'get'
               /\ tasks' = [tasks EXCEPT ![i] =
                      Task("raised", "AttributeError", TRUE, text, entry, NoUrlDiff)]
               /\ error' = Raised("AttributeError")
          ELSE /\ tasks' = [tasks EXCEPT ![i] =
                      Task(after_read, "none", TRUE, text, entry, NoUrlDiff)]
               /\ UNCHANGED error
    /\ UNCHANGED <<disk, cache, urls, url_diffs, stdout, pc, now, cycle,
                   start_disk, persists, printed, last_fetched, interval, waited>>
    /\ UNCHANGED diffVars

\* The task goes on: lines 99-114, parse, compare, store the new entry and
\* return the UrlDiff.
FinishDiff(i) ==
    /\ pc = "gather"
    /\ i \in DOMAIN tasks
    /\ tasks[i].pc \in { "diffing", "suspended" }
    /\ tasks[i].pc = "suspended" => ~LoopBusy
    /\ LET url == urls[i]
           entry == tasks[i].entry
           text == tasks[i].text
           old_html_str == get(entry.fields, "html", "")
           old_html == BeautifulSoup(old_html_str)
           new_html == BeautifulSoup(text)
           differentiating_elements ==
               compare_html(RootRef(old_html), RootRef(new_html))
       IN /\ cache' = put(cache, url, CacheEntry(text, cache_timestamp(now)))
          /\ tasks' = [tasks EXCEPT ![i] =
                 Task("done", "none", TRUE, text, entry,
                      UrlDiff(url, differentiating_elements,
                              old_timestamp(entry),
                              isoformat(now + 1)))]
          /\ now' = now + 2
    /\ UNCHANGED <<disk, urls, url_diffs, stdout, pc, cycle, error,
                   start_disk, persists, printed, last_fetched, interval, waited>>
    /\ UNCHANGED diffVars

(***************************************************************************)
(* do_diff and main.                                                       *)
(***************************************************************************)
\* gather(return_exceptions=True): returning once no task is running.
NoTaskRunning == \A i \in DOMAIN tasks : tasks[i].pc \notin { "fetching", "diffing" }

\* gather returns when every task has returned its UrlDiff.
GatherReady == \A i \in DOMAIN tasks : tasks[i].pc = "done"

\* The results in the order the tasks completed (as_completed): the later
\* the completion, the larger new_timestamp.
results_as_completed ==
    LET n == Len(tasks)
        stamp(i) == tasks[i].result.new_timestamp.value
        order == CHOOSE f \in [1..n -> 1..n] :
                    /\ \A i, j \in 1..n : i # j => f[i] # f[j]
                    /\ \A i, j \in 1..n : i < j => stamp(f[i]) <= stamp(f[j])
    IN [k \in 1..n |-> tasks[order[k]].result]

\* What gather returns: the tasks' results in the order of the awaitables
\* it was given, which is the order of urls.
gather_results == [i \in DOMAIN tasks |-> tasks[i].result]

\* Writing the cache before printing.
WriteFirst(label) ==
    CASE label = "gather" -> "write"
      [] label = "write" -> "print"
      [] label = "print" -> "sleep"

\* The order of do_diff's statements after the gather: print the
\* differences, then write cache.json, then return to main's sleep.
NextPc(label) ==
    CASE label = "gather" -> "print"
      [] label = "print" -> "write"
      [] label = "write" -> "sleep"

\* The values config['interval_in_minutes'] may hold.
Intervals == { 1, 60, 1439, 1440, 1441, 2880 }

\* timedelta(minutes=m): normalised to whole days and the seconds left over.
timedelta(minutes) ==
    [days |-> (minutes * 60) \div (24 * 60 * 60),
     seconds |-> (minutes * 60) % (24 * 60 * 60)]

\* main reads config.json and calls do_diff, which reads cache.json and
\* starts one task per URL.
StartCycle ==
    /\ pc = "idle"
    /\ cycle < MaxCycles
    /\ \E us \in UrlLists :
          /\ urls' = us
          /\ IF disk.state = "malformed"
             THEN \* json.loads raises JSONDecodeError: only FileNotFoundError is caught
                  /\ error' = "JSONDecodeError"
                  /\ pc' = "exited"
                  /\ tasks' = <<>>
                  /\ UNCHANGED cache
             ELSE /\ cache' = IF disk.state = "absent" THEN EmptyMap
                              ELSE json_loads(disk)
                  /\ tasks' = [i \in DOMAIN us |-> NewTask]
                  /\ pc' = "gather"
                  /\ error' = "none"
    /\ start_disk' = disk
    /\ url_diffs' = <<>>
    /\ stdout' = <<>>
    /\ persists' = 0
    /\ printed' = FALSE
    /\ interval' = 0
    /\ waited' = 0
    /\ now' = now + 1
    /\ UNCHANGED <<disk, cycle, last_fetched>>
    /\ UNCHANGED diffVars

\* main catching the exception and going on with the next cycle.
GatherRaiseAndRetry ==
    /\ pc = "gather"
    /\ ~LoopBusy
    /\ error # "none"
    /\ pc' = "idle"
    /\ cycle' = cycle + 1
    /\ UNCHANGED <<disk, cache, urls, tasks, url_diffs, stdout, now, error,
                   start_disk, persists, printed, last_fetched, interval, waited>>
    /\ UNCHANGED diffVars

\* A task raised: the exception leaves gather, do_diff and main; asyncio.run
\* cancels the tasks still waiting for their response and the process ends.
GatherRaise ==
    /\ pc = "gather"
    /\ ~LoopBusy
    /\ error # "none"
    /\ pc' = "exited"
    /\ tasks' = [i \in DOMAIN tasks |->
                    IF tasks[i].pc \in { "fetching", "suspended" }
                    THEN [tasks[i] EXCEPT !.pc = "cancelled"]
                    ELSE tasks[i]]
    /\ UNCHANGED <<disk, cache, urls, url_diffs, stdout, now, cycle, error,
                   start_disk, persists, printed, last_fetched, interval, waited>>
    /\ UNCHANGED diffVars

\* Every task returned: gather returns the results in the order of urls.
GatherReturn ==
    /\ pc = "gather"
    /\ ~LoopBusy
    /\ GatherReady
    /\ url_diffs' = gather_results
    /\ pc' = NextPc("gather")
    /\ UNCHANGED <<disk, cache, urls, tasks, stdout, now, cycle, error,
                   start_disk, persists, printed, last_fetched, interval, waited>>
    /\ UNCHANGED diffVars

\* The print loop: one CHANGE block per UrlDiff with differing elements.
Report ==
    /\ pc = "print"
    /\ stdout' = SelectSeq(url_diffs,
                           LAMBDA d : d.differentiating_elements # <<>>)
    /\ printed' = TRUE
    /\ pc' = NextPc("print")
    /\ UNCHANGED <<disk, cache, urls, tasks, url_diffs, now, cycle, error,
                   start_disk, persists, last_fetched, interval, waited>>
    /\ UNCHANGED diffVars

\* cache_path.write_text(json.dumps(cache, ...)): the whole mapping, once.
Persist ==
    /\ pc = "write"
    /\ disk' = json_dumps(cache)
    /\ persists' = persists + 1
    /\ pc' = NextPc("write")
    /\ UNCHANGED <<cache, urls, tasks, url_diffs, stdout, now, cycle, error,
                   start_disk, printed, last_fetched, interval, waited>>
    /\ UNCHANGED diffVars

\* do_diff returned; main computes the delay from the interval it read from
\* config.json (used here only) and sleeps delay.seconds, then loops.
Sleep ==
    /\ pc = "sleep"
    /\ \E minutes \in Intervals :
          /\ interval' = minutes
          /\ waited' = timedelta(minutes).seconds
    /\ last_fetched' =
          [u \in { urls[i] : i \in DOMAIN urls } |->
              tasks[CHOOSE i \in DOMAIN urls : urls[i] = u].text]
    /\ pc' = "idle"
    /\ cycle' = cycle + 1
    /\ UNCHANGED <<disk, cache, urls, tasks, url_diffs, stdout, now, error,
                   start_disk, persists, printed>>
    /\ UNCHANGED diffVars

Init ==
    /\ disk \in InitialDisks
    /\ cache = EmptyMap
    /\ urls = <<>>
    /\ tasks = <<>>
    /\ url_diffs = <<>>
    /\ stdout = <<>>
    /\ pc = "idle"
    /\ now = 1
    /\ cycle = 0
    /\ error = "none"
    /\ start_disk = disk
    /\ persists = 0
    /\ printed = FALSE
    /\ last_fetched = EmptyMap
    /\ interval = 0
    /\ waited = 0
    /\ old_tree = Soup(<<>>)
    /\ new_tree = Soup(<<>>)
    /\ diff_result = <<>>
    /\ diff_pc = "unused"

Next ==
    \/ StartCycle
    \/ \E i \in 1..MaxUrls : FetchFail(i)
    \/ \E i \in 1..MaxUrls : \E text \in Pages : FetchOk(i, text)
    \/ \E i \in 1..MaxUrls : FinishDiff(i)
    \/ GatherRaise
    \/ GatherReturn
    \/ Report
    \/ Persist
    \/ Sleep

Spec == Init /\ [][Next]_vars


(***************************************************************************)
(* Properties of the pipeline, checked under Spec.                         *)
(***************************************************************************)
\* Some fetch of the running cycle failed (network error or HTTP status).
FetchFailed == \E i \in DOMAIN tasks : tasks[i].exc = "HTTPError"

\* Every fetch of the running cycle returned a success response.
EveryFetchSucceeded == tasks # <<>> /\ \A i \in DOMAIN tasks : tasks[i].got

CycleStarted == pc # "idle" \/ cycle > 0

\* The cycle is over: do_diff returned, or an exception left it.
CycleEnded == pc \in { "sleep", "exited" } \/ (pc = "idle" /\ cycle > 0)

\* The persisted cache holds html for url.
Persisted(url, html) ==
    /\ disk.state = "json"
    /\ url \in DOMAIN disk.data
    /\ disk.data[url].html = html

\* C1: when a fetch of the cycle fails, no result is returned or reported
\* for any URL and cache.json is never written: it stays as it was at the
\* start of the cycle, also for the URLs whose fetch succeeded.
C1_FetchFailureAbortsCycle ==
    FetchFailed =>
        /\ url_diffs = <<>>
        /\ stdout = <<>>
        /\ ~printed
        /\ persists = 0
        /\ disk = start_disk

\* One fetch failed, the exception left do_diff, and a sibling had fetched,
\* diffed and stored content that cache.json does not hold.
C1_Witness ==
    /\ FetchFailed
    /\ pc = "exited"
    /\ \E j \in DOMAIN tasks :
          /\ tasks[j].pc = "done"
          /\ cache[urls[j]].fields.html = tasks[j].text
          /\ ~Persisted(urls[j], tasks[j].text)

\* C2: after a cycle in which every fetch succeeded, the persisted entry of
\* every URL of the list holds the content fetched in that cycle.
C2_PersistedEqualsFetched ==
    (CycleEnded /\ EveryFetchSucceeded) =>
        \A i \in DOMAIN tasks : Persisted(urls[i], tasks[i].text)

\* C3: cache.json is written at most once per cycle, never before every task
\* has completed, and exactly once in a cycle without a fetch failure.
C3_PersistExactlyOnce ==
    /\ persists <= 1
    /\ (persists >= 1 => \A i \in DOMAIN tasks : tasks[i].pc = "done")
    /\ ((CycleEnded /\ ~FetchFailed) => persists = 1)

\* C4 as stated: no change report is emitted before the cycle's write of
\* cache.json.
C4_PersistBeforeReport ==
    stdout # <<>> => persists >= 1

\* C4 as amended: the results are reported before the cache is persisted:
\* cache.json is written only after the cycle's print loop has run.
C4_ReportBeforePersist ==
    persists >= 1 => printed

C4_Witness ==
    /\ persists = 1
    /\ printed
    /\ stdout # <<>>

\* C5: loading never fails the caller: from an absent or a malformed
\* cache.json the cycle proceeds with an empty mapping and nothing is raised.
C5_LoadNeverFails ==
    (CycleStarted /\ start_disk.state \in { "absent", "malformed" }) =>
        /\ error # "JSONDecodeError"
        /\ pc # "exited"
        /\ (pc = "gather" /\ \A i \in DOMAIN tasks : tasks[i].pc = "fetching")
               => cache = EmptyMap

\* C10 (first sight): a task that completes for a URL the cycle started
\* without a cache entry for, on a non-empty body, returns old_timestamp
\* datetime.min and exactly one pair, the empty document against the fetched
\* document; the cache then holds the fetched content, and so does
\* cache.json once it is written.
C10_FirstSight ==
    \A i \in DOMAIN tasks :
        ( /\ tasks[i].pc = "done"
          /\ urls[i] \notin DOMAIN start_disk.data
          /\ tasks[i].text # "" ) =>
            /\ tasks[i].result.url = urls[i]
            /\ tasks[i].result.old_timestamp = datetime_min
            /\ tasks[i].result.differentiating_elements =
                   <<DifferentiatingElement(RootRef(Soup(<<>>)),
                                            RootRef(BeautifulSoup(tasks[i].text)))>>
            /\ urls[i] \in DOMAIN cache
            /\ cache[urls[i]].fields.html = tasks[i].text
            /\ (persists >= 1 => Persisted(urls[i], tasks[i].text))

\* No cache.json at all, one URL, the server answers the "hi" page, and the
\* cycle has written the cache.
C10_Witness ==
    /\ start_disk = AbsentFile
    /\ urls = <<"u1">>
    /\ tasks[1].pc = "done"
    /\ tasks[1].text = "<html><body>hi</body></html>"
    /\ Len(tasks[1].result.differentiating_elements) = 1
    /\ persists = 1
    /\ Persisted("u1", "<html><body>hi</body></html>")

\* C11 (no change across cycles): when a cycle follows a completed one and a
\* fetch returns the body the previous cycle fetched for that URL, the cycle
\* started from a cache.json holding exactly that body, the task's result
\* has no differing elements, and no report block names the URL.
C11_NoChangeNoReport ==
    (cycle >= 1 /\ pc # "idle") =>
        \A i \in DOMAIN tasks :
            ( /\ tasks[i].got
              /\ urls[i] \in DOMAIN last_fetched
              /\ tasks[i].text = last_fetched[urls[i]] ) =>
                /\ start_disk.state = "json"
                /\ urls[i] \in DOMAIN start_disk.data
                /\ start_disk.data[urls[i]].html = last_fetched[urls[i]]
                /\ tasks[i].pc = "done" =>
                       tasks[i].result.differentiating_elements = <<>>
                /\ \A k \in DOMAIN stdout : stdout[k].url # urls[i]

\* The second cycle fetched the same non-empty body for one URL and a new
\* one for another: only the other one is reported.
C11_Witness ==
    /\ cycle = 1
    /\ pc = "sleep"
    /\ stdout # <<>>
    /\ \E i \in DOMAIN tasks :
          /\ urls[i] \in DOMAIN last_fetched
          /\ tasks[i].text = last_fetched[urls[i]]
          /\ tasks[i].text # ""
          /\ tasks[i].result.differentiating_elements = <<>>

\* C12 (round trip): loading the cache.json a cycle wrote yields the URL set
\* of the cache that was written and, for every URL, its html and timestamp.
C12_RoundTrip ==
    (persists = 1 /\ pc \in { "sleep", "idle" }) =>
        LET loaded == json_loads(disk)
        IN /\ DOMAIN loaded = DOMAIN cache
           /\ \A u \in DOMAIN cache :
                 /\ loaded[u].fields.html = cache[u].fields.html
                 /\ loaded[u].fields.timestamp = cache[u].fields.timestamp

\* The written cache mixed an entry loaded from storage with one stored by a
\* task of the cycle.
C12_Witness ==
    /\ persists = 1
    /\ pc = "sleep"
    /\ \E u, v \in DOMAIN cache :
          /\ cache[u].kind = "dict"
          /\ cache[v].kind = "CacheEntry"
          /\ json_loads(disk)[v].kind = "dict"

UrlsOfCycle == { urls[i] : i \in DOMAIN urls }

\* C13 (frame): a step of a task changes or adds no cache entry but the one
\* under its own URL, and the entries of the URLs the cycle's list does not
\* name stay as loaded and are in cache.json unchanged, before and after the
\* cycle's write.
C13_Frame ==
    /\ [](CycleStarted =>
            \A u \in DOMAIN start_disk.data \ UrlsOfCycle :
                /\ u \in DOMAIN cache
                /\ cache[u] = Dict(start_disk.data[u])
                /\ disk.state = "json"
                /\ u \in DOMAIN disk.data
                /\ disk.data[u] = start_disk.data[u])
    /\ [][(pc = "gather" /\ pc' = "gather") =>
            /\ DOMAIN cache \subseteq DOMAIN cache'
            /\ \A u \in DOMAIN cache' :
                  (u \notin DOMAIN cache \/ cache'[u] # cache[u]) =>
                      \E i \in DOMAIN tasks :
                          /\ urls[i] = u
                          /\ tasks[i].pc # "done"
                          /\ tasks'[i].pc = "done"]_vars

\* The cycle named u1 only, stored a new body for it and wrote cache.json,
\* which still holds the loaded entry of u2.
C13_Witness ==
    /\ persists = 1
    /\ urls = <<"u1">>
    /\ "u1" \in DOMAIN start_disk.data
    /\ "u2" \in DOMAIN start_disk.data
    /\ disk.data["u1"] # start_disk.data["u1"]
    /\ disk.data["u2"] = start_disk.data["u2"]

\* C14: a task suspends in the fetch only: once it has read its old entry,
\* the next step of the system is that task's own completion, no other task
\* and not do_diff steps in between, and the entry it stores replaces the
\* entry it read.
C14_NoInterleaving ==
    [][\A i \in DOMAIN tasks :
          tasks[i].pc \in { "diffing", "suspended" } =>
              /\ tasks'[i].pc = "done"
              /\ \A j \in DOMAIN tasks \ {i} : tasks'[j] = tasks[j]
              /\ pc' = pc
              /\ old_cache_entry(cache, urls[i]) = tasks[i].entry
              /\ cache'[urls[i]].fields.html = tasks[i].text]_vars

\* One task has read its entry while another one's response may arrive at
\* any moment.
C14_Witness ==
    \E i, j \in DOMAIN tasks :
        /\ tasks[i].pc = "diffing"
        /\ tasks[j].pc = "fetching"
        /\ urls[i] = urls[j]

\* gather has returned in the running cycle.
Gathered == pc \in { "print", "write", "sleep" } \/ (pc = "idle" /\ cycle > 0)

\* C16: a successful cycle yields one UrlDiff per element of urls, those
\* without differing elements included, in the order of urls whatever the
\* order in which the tasks completed.
C16_OneResultPerUrlInOrder ==
    Gathered =>
        /\ Len(url_diffs) = Len(urls)
        /\ \A i \in DOMAIN urls :
              /\ tasks[i].pc = "done"
              /\ url_diffs[i] = tasks[i].result
              /\ url_diffs[i].url = urls[i]

\* The second task completed before the first, whose result has no
\* differing elements.
C16_Witness ==
    /\ pc = "sleep"
    /\ urls = <<"u1", "u2">>
    /\ url_diffs[1].new_timestamp.value > url_diffs[2].new_timestamp.value
    /\ url_diffs[1].differentiating_elements = <<>>
    /\ url_diffs[2].differentiating_elements # <<>>

\* C17: after a fetch failure the exception leaves the cycle unhandled: the
\* failed task is not retried, nothing is written, and no later cycle is
\* ever started.
C17_FailureEndsLoop ==
    /\ [](FetchFailed => (pc \in { "gather", "exited" } /\ error # "none"))
    /\ [][FetchFailed =>
            /\ pc' \in { "gather", "exited" }
            /\ cycle' = cycle
            /\ urls' = urls
            /\ persists' = 0
            /\ \A i \in DOMAIN tasks :
                  tasks[i].exc = "HTTPError" => tasks'[i] = tasks[i]]_vars

\* The failure happened in the second cycle and the process has ended.
C17_Witness ==
    /\ FetchFailed
    /\ pc = "exited"
    /\ error = "HTTPError"
    /\ cycle = 1

\* C18: after a completed cycle main waits interval_in_minutes * 60
\* seconds, for every positive interval, a day or more included.
C18_WaitEqualsInterval ==
    (pc = "idle" /\ cycle > 0) => waited = interval * 60

\* C19: whatever the URL list, no task fails to read its existing entry,
\* and a cycle in which every fetch succeeded runs every task to completion
\* and writes cache.json.
C19_EveryTaskCompletes ==
    /\ \A i \in DOMAIN tasks : tasks[i].exc # "AttributeError"
    /\ (CycleEnded /\ EveryFetchSucceeded) =>
           /\ \A i \in DOMAIN tasks : tasks[i].pc = "done"
           /\ persists = 1


(***************************************************************************)
(* DiffSpec: compare_html on every pair of trees of at most MaxNodes       *)
(* elements.                                                               *)
(***************************************************************************)
DiffInit ==
    /\ disk = AbsentFile
    /\ cache = EmptyMap
    /\ urls = <<>>
    /\ tasks = <<>>
    /\ url_diffs = <<>>
    /\ stdout = <<>>
    /\ pc = "unused"
    /\ now = 1
    /\ cycle = 0
    /\ error = "none"
    /\ start_disk = AbsentFile
    /\ persists = 0
    /\ printed = FALSE
    /\ last_fetched = EmptyMap
    /\ interval = 0
    /\ waited = 0
    /\ old_tree \in Trees
    /\ new_tree \in Trees
    /\ diff_result = <<>>
    /\ diff_pc = "input"

Compare ==
    /\ diff_pc = "input"
    /\ diff_result' = compare_html(RootRef(old_tree), RootRef(new_tree))
    /\ diff_pc' = "compared"
    /\ UNCHANGED <<old_tree, new_tree>>
    /\ UNCHANGED pipeVars

DiffNext == Compare

DiffSpec == DiffInit /\ [][DiffNext]_vars

(***************************************************************************)
(* Positions in trees, used to state the properties of compare_html.       *)
(***************************************************************************)
RECURSIVE Paths(_), NodeAt(_, _), ReplaceAt(_, _, _)
\* Every position of a tree, as the path of child indexes from its root.
Paths(tree) ==
    { <<>> } \cup
    UNION { { <<i>> \o q : q \in Paths(tree.kids[i]) } : i \in 1..Len(tree.kids) }

NodeAt(tree, p) ==
    IF p = <<>> THEN tree ELSE NodeAt(tree.kids[Head(p)], Tail(p))

\* The tree with the element at position p replaced by node.
ReplaceAt(tree, p, node) ==
    IF p = <<>> THEN node
    ELSE [tree EXCEPT !.kids[Head(p)] = ReplaceAt(tree.kids[Head(p)], Tail(p), node)]

IsPrefix(p, q) == Len(p) <= Len(q) /\ SubSeq(q, 1, Len(p)) = p

IsProperPrefix(p, q) == Len(p) < Len(q) /\ SubSeq(q, 1, Len(p)) = p

Compared == diff_pc = "compared"

OldAt(p) == Ref(p, NodeAt(old_tree, p))
NewAt(p) == Ref(p, NodeAt(new_tree, p))

\* The positions both trees have at which the elements themselves differ:
\* in tag, attributes, text or number of children.
DifferingPositions ==
    { p \in Paths(old_tree) \cap Paths(new_tree) :
        LET o == NodeAt(old_tree, p)
            n == NodeAt(new_tree, p)
        IN \/ o.name # n.name
           \/ o.attrs # n.attrs
           \/ o.text # n.text
           \/ Len(o.kids) # Len(n.kids) }

\* new_tree is old_tree with only the text of the leaf at p changed.
OnlyLeafTextDiffers(p) ==
    /\ p \in Paths(old_tree) \cap Paths(new_tree)
    /\ LET o == NodeAt(old_tree, p)
           n == NodeAt(new_tree, p)
       IN /\ o.kids = <<>> /\ n.kids = <<>>
          /\ o.name = n.name /\ o.attrs = n.attrs /\ o.text # n.text
          /\ new_tree = ReplaceAt(old_tree, p, n)

\* new_tree's root has old_tree's children followed by one more child.
OneTrailingChildAppended ==
    /\ Len(new_tree.kids) = Len(old_tree.kids) + 1
    /\ SubSeq(new_tree.kids, 1, Len(old_tree.kids)) = old_tree.kids

Returned == { diff_result[k] : k \in 1..Len(diff_result) }

(***************************************************************************)
(* Properties of compare_html, checked under DiffSpec.                     *)
(***************************************************************************)

\* C6 (reflexivity): comparing a tree with itself returns the empty list.
C6_Reflexive ==
    (Compared /\ old_tree = new_tree) => diff_result = <<>>

C6_Witness ==
    Compared /\ old_tree = new_tree /\ Len(old_tree.kids) = 2 /\ diff_result = <<>>

\* C7 (localization): when the two trees are identical except for the text
\* of one leaf, exactly one pair is returned and its members are the old and
\* the new element at that leaf's position, not an ancestor of it.
C7_Localized ==
    Compared =>
        \A p \in Paths(old_tree) :
            OnlyLeafTextDiffers(p) =>
                diff_result = <<DifferentiatingElement(OldAt(p), NewAt(p))>>

\* <div><p>A</p><p>A</p></div> against <div><p>A</p><p>B</p></div>: one pair,
\* at the second <p>.
C7_Witness ==
    /\ Compared
    /\ old_tree = Tag("div", NoAttrs, "", <<Tag("p", NoAttrs, "A", <<>>),
                                           Tag("p", NoAttrs, "A", <<>>)>>)
    /\ OnlyLeafTextDiffers(<<2>>)
    /\ Len(diff_result) = 1
    /\ diff_result[1].old.path = <<2>>
    /\ diff_result[1].new.node = Tag("p", NoAttrs, "B", <<>>)

\* Every returned pair is a pair of positionally corresponding elements of
\* the two trees that are not structurally equal.
PairsCorrespondAndDiffer ==
    \A e \in Returned :
        /\ e.old.path = e.new.path
        /\ e.old.path \in Paths(old_tree) \cap Paths(new_tree)
        /\ e.old = OldAt(e.old.path)
        /\ e.new = NewAt(e.new.path)
        /\ e.old.node # e.new.node

\* C8 as stated: every position at which the trees differ lies inside the
\* subtree of some returned pair, and every returned pair is a pair of
\* positionally corresponding, structurally unequal elements.
C8_ContainsAllDivergence ==
    Compared =>
        /\ \A p \in DifferingPositions :
               \E e \in Returned : IsPrefix(e.old.path, p)
        /\ PairsCorrespondAndDiffer

\* C8 as amended: every position at which the trees differ lies inside the
\* subtree of some returned pair or is a proper ancestor of a returned pair
\* (an element's own difference goes unreported when a paired child below it
\* differs), and every returned pair is a pair of positionally corresponding,
\* structurally unequal elements.
C8_DivergenceInsideOrAbove ==
    Compared =>
        /\ \A p \in DifferingPositions :
               \E e \in Returned :
                   IsPrefix(e.old.path, p) \/ IsProperPrefix(p, e.old.path)
        /\ PairsCorrespondAndDiffer

\* The root's attributes and its second child's text both differ: only the
\* child is returned.
C8_Witness ==
    /\ Compared
    /\ <<>> \in DifferingPositions
    /\ <<2>> \in DifferingPositions
    /\ diff_result = <<DifferentiatingElement(OldAt(<<2>>), NewAt(<<2>>))>>

\* C9 (truncation): when new has one extra trailing child and the aligned
\* children are equal, every aligned child pair compares as the empty list
\* and no returned pair has the appended child as a member; the difference
\* is reported as the pair of the two parents.
C9_AppendedChildNotReported ==
    (Compared /\ OneTrailingChildAppended) =>
        LET k == Len(new_tree.kids)
            appended == Ref(<<k>>, new_tree.kids[k])
        IN /\ \A i \in 1..Len(old_tree.kids) :
                  compare_html(OldAt(<<i>>), NewAt(<<i>>)) = <<>>
           /\ \A e \in Returned : e.old # appended /\ e.new # appended
           /\ diff_result =
                  <<DifferentiatingElement(RootRef(old_tree), RootRef(new_tree))>>

C9_Witness ==
    /\ Compared
    /\ OneTrailingChildAppended
    /\ Len(old_tree.kids) = 1
    /\ old_tree.name = new_tree.name
    /\ Len(diff_result) = 1
    /\ diff_result[1].new.path = <<>>

RECURSIVE ChildResults(_)
\* The results of comparing the positionally paired children of the two
\* roots, from the i-th pair on, in child order.
ChildResults(i) ==
    IF i > Min(Len(old_tree.kids), Len(new_tree.kids)) THEN <<>>
    ELSE compare_html(OldAt(<<i>>), NewAt(<<i>>)) \o ChildResults(i + 1)

\* C15: on two unequal elements, when the paired children's results are all
\* empty the result is the single pair of the two elements; otherwise it is
\* the children's results in child order, without the two elements.
C15_SelfOrChildren ==
    (Compared /\ old_tree # new_tree) =>
        LET self == DifferentiatingElement(RootRef(old_tree), RootRef(new_tree))
        IN IF ChildResults(1) = <<>>
           THEN diff_result = <<self>>
           ELSE diff_result = ChildResults(1) /\ self \notin Returned

\* Both children differ and so do the roots' attributes: the two child
\* pairs, in order, and not the roots.
C15_Witness ==
    /\ Compared
    /\ old_tree.attrs # new_tree.attrs
    /\ Len(diff_result) = 2
    /\ diff_result[1].old.path = <<1>>
    /\ diff_result[2].old.path = <<2>>

\* C20: the result is empty if and only if the two trees are structurally
\* equal.
C20_EmptyIffEqual ==
    Compared => ((diff_result = <<>>) <=> (old_tree = new_tree))

\* The trees differ in nothing but the number of children of an element
\* below the root, and a pair is returned.
C20_Witness ==
    /\ Compared
    /\ Len(old_tree.kids) = 1
    /\ Len(new_tree.kids) = 1
    /\ old_tree.kids[1].kids = <<>>
    /\ Len(new_tree.kids[1].kids) = 1
    /\ new_tree = ReplaceAt(old_tree, <<1>>,
                            [old_tree.kids[1] EXCEPT !.kids = new_tree.kids[1].kids])
    /\ diff_result # <<>>

====
